---- MODULE Spec2Model ----
(***************************************************************************)
(* determine_pypy_version.py: a one-shot script that searches sys.version  *)
(* for the pattern  PyPy (\S+) , exits with status 1 when the search finds *)
(* nothing, and otherwise prints "Hello World!" when the captured group is *)
(* exactly "7.3.16" and ":(" when it is anything else.                     *)
(*                                                                         *)
(* A Python str is modelled as the sequence of its Unicode code points, so *)
(* the regular expression is executed character by character and every    *)
(* character class is the class the re module uses.                        *)
(***************************************************************************)
EXTENDS Integers, Sequences, FiniteSets

\* sys_version  the interpreter's version string, read once on line 5
\* pc           the statement about to run ("exited" once the process is gone)
\* m            the value of m: the match object, NoMatch for None
\* version      the value of version, Unbound before line 9
\* stdout       the lines written to standard output so far
\* exit_status  <<>> while the process runs, <<code>> once it has exited
\* n_search     how many times re.search has been called
\* n_compare    how many times version == "7.3.16" has been evaluated
VARIABLES sys_version, pc, m, version, stdout, exit_status, n_search, n_compare

vars == <<sys_version, pc, m, version, stdout, exit_status, n_search, n_compare>>

----------------------------------------------------------------------------
(* Bounds and input fragments *)

\* Largest number of fragments a version string is assembled from.
MaxSegs == 4

\* Pieces of interpreter banners, as code points. Concatenations of these
\* give the strings sys.version ranges over: with and without the word, with
\* each kind of separator (space, tab, newline, vertical tab), with tokens equal
\* to, extending and differing from "7.3.16".
Fragments ==
    { <<80, 121, 80, 121>>,                                   \* "PyPy"
      <<32>>,                                                 \* U+0020 space
      <<9>>,                                                  \* U+0009 tab
      <<10>>,                                                 \* U+000A newline
      <<11>>,                                                 \* U+000B vertical tab
      <<55, 46, 51, 46, 49, 54>>,                             \* "7.3.16"
      <<93>>,                                                 \* "]"
      <<77, 121>>,                                            \* "My"
      <<80, 121, 80, 121, 32, 55, 46, 51, 46, 49, 54>>,       \* "PyPy 7.3.16"
      <<80, 121, 80, 121, 32, 55, 46, 51, 46, 49, 55>> }      \* "PyPy 7.3.17"

RECURSIVE Flatten(_)
Flatten(segs) ==
    IF segs = <<>> THEN <<>> ELSE Head(segs) \o Flatten(Tail(segs))

VersionStrings ==
    { Flatten(segs) : segs \in UNION { [1..n -> Fragments] : n \in 0..MaxSegs } }

----------------------------------------------------------------------------
(* The regular expression  r"PyPy (\S+)"  and re.search *)

\* The code points \s matches and \S rejects for a str pattern: the 29
\* characters for which str.isspace() is true. U+0009..U+000D, U+001C..U+001F,
\* U+0020, U+0085, U+00A0, U+1680, U+2000..U+200A, U+2028, U+2029, U+202F,
\* U+205F, U+3000.
Whitespace ==
    (9..13) \cup (28..32) \cup { 133, 160, 5760 } \cup (8192..8202)
        \cup { 8232, 8233, 8239, 8287, 12288 }

\* \S
IsNonSpace(c) == c \notin Whitespace

\* The literal prefix of the pattern, "PyPy ": the word and one U+0020.
LiteralPrefix == <<80, 121, 80, 121, 32>>

\* Variant of LiteralAt for the pattern  PyPy\s(\S+) : any whitespace
\* character is accepted where the pattern has U+0020.
LiteralAtAnySpace(s, i) ==
    /\ i + Len(LiteralPrefix) - 1 <= Len(s)
    /\ \A k \in 1..(Len(LiteralPrefix) - 1) : s[i + k - 1] = LiteralPrefix[k]
    /\ s[i + Len(LiteralPrefix) - 1] \in Whitespace

\* The literal prefix matches s at index i (1-based).
LiteralAt(s, i) ==
    /\ i + Len(LiteralPrefix) - 1 <= Len(s)
    /\ \A k \in 1..Len(LiteralPrefix) : s[i + k - 1] = LiteralPrefix[k]

\* Variant of RunEnd for a lazy quantifier,  \S+? : the run stops after its
\* first character.
RunEndLazy(s, j) ==
    IF j <= Len(s) /\ IsNonSpace(s[j]) THEN j + 1 ELSE j

\* Greedy \S+ from index j: the index just past the last character of the
\* longest run of \S characters starting at j (j itself when the run is empty).
RECURSIVE RunEnd(_, _)
RunEnd(s, j) ==
    IF j <= Len(s) /\ IsNonSpace(s[j]) THEN RunEnd(s, j + 1) ELSE j

\* The match object: span() and span(1), 1-based and inclusive.
NoMatch == [matched |-> FALSE, start |-> 0, end |-> 0, g1start |-> 0, g1end |-> 0]

\* The ASCII \w characters, 0-9 A-Z _ a-z (used by the word-boundary variant
\* below and by the properties).
WordChars == (48..57) \cup (65..90) \cup { 95 } \cup (97..122)

\* Variant of MatchAt for the pattern  \bPyPy (\S+) : the word must not be
\* the tail of a longer word.
MatchAtWordStart(s, i) ==
    IF /\ (i = 1 \/ (i <= Len(s) + 1 /\ s[i - 1] \notin WordChars))
       /\ LiteralAt(s, i)
       /\ RunEnd(s, i + Len(LiteralPrefix)) > i + Len(LiteralPrefix)
    THEN [matched |-> TRUE,
          start   |-> i,
          end     |-> RunEnd(s, i + Len(LiteralPrefix)) - 1,
          g1start |-> i + Len(LiteralPrefix),
          g1end   |-> RunEnd(s, i + Len(LiteralPrefix)) - 1]
    ELSE NoMatch

\* The pattern tried at index i: the literal prefix, then one or more \S.
MatchAt(s, i) ==
    IF LiteralAt(s, i) /\ RunEnd(s, i + Len(LiteralPrefix)) > i + Len(LiteralPrefix)
    THEN [matched |-> TRUE,
          start   |-> i,
          end     |-> RunEnd(s, i + Len(LiteralPrefix)) - 1,
          g1start |-> i + Len(LiteralPrefix),
          g1end   |-> RunEnd(s, i + Len(LiteralPrefix)) - 1]
    ELSE NoMatch

\* Variant of SearchFrom that keeps the last matching start position
\* instead of the first.
RECURSIVE SearchLastFrom(_, _)
SearchLastFrom(s, i) ==
    IF i > Len(s) THEN NoMatch
    ELSE LET later == SearchLastFrom(s, i + 1)
         IN  IF later.matched THEN later ELSE MatchAt(s, i)

\* re.search scans the start positions from the left and returns the first
\* position at which the pattern matches, None when there is none.
RECURSIVE SearchFrom(_, _)
SearchFrom(s, i) ==
    IF i > Len(s) THEN NoMatch
    ELSE IF MatchAt(s, i).matched THEN MatchAt(s, i)
    ELSE SearchFrom(s, i + 1)

ReSearch(s) == SearchFrom(s, 1)

\* m.group(1)
Group1(s, mo) == SubSeq(s, mo.g1start, mo.g1end)

----------------------------------------------------------------------------
(* The script *)

\* "7.3.16"
EXPECTED == <<55, 46, 51, 46, 49, 54>>

HELLO == "Hello World!"

SAD == ":("

\* Variant of VersionEquals with the test inverted,  version != "7.3.16" .
VersionDiffers(v) == v # EXPECTED

\* Variant of VersionEquals for  version.startswith("7.3.16") .
VersionStartsWith(v) ==
    Len(v) >= Len(EXPECTED) /\ SubSeq(v, 1, Len(EXPECTED)) = EXPECTED

\* version == "7.3.16"
VersionEquals(v) == v = EXPECTED

\* Value of the name `version` before line 9 binds it: no string at all
\* (-1 is no code point).
Unbound == << -1 >>

\* Variant of AfterExit in which exit(1) does not stop the script and the
\* statements after the if are still run.
AfterExitFallThrough == "compare"

\* Where control goes after exit(1): SystemExit ends the interpreter.
AfterExit == "exited"

\* What print(x) adds to standard output: one line.
Written(out, line) == Append(out, line)

Init ==
    /\ sys_version \in VersionStrings
    /\ pc = "search"
    /\ m = NoMatch
    /\ version = Unbound
    /\ stdout = <<>>
    /\ exit_status = <<>>
    /\ n_search = 0
    /\ n_compare = 0

\* line 5: m = re.search(r"PyPy (\S+)", sys.version)
Search ==
    /\ pc = "search"
    /\ m' = ReSearch(sys_version)
    /\ n_search' = n_search + 1
    /\ pc' = "test"
    /\ UNCHANGED <<sys_version, version, stdout, exit_status, n_compare>>

\* Variant of ExitNoMatch for  exit(0) .
ExitNoMatchStatus0 ==
    /\ pc = "test"
    /\ ~m.matched
    /\ exit_status' = <<0>>
    /\ pc' = AfterExit
    /\ UNCHANGED <<sys_version, m, version, stdout, n_search, n_compare>>

\* Variant of ExitNoMatch that prints the sentinel before exit(1).
ExitNoMatchLoud ==
    /\ pc = "test"
    /\ ~m.matched
    /\ stdout' = Written(stdout, SAD)
    /\ exit_status' = <<1>>
    /\ pc' = AfterExit
    /\ UNCHANGED <<sys_version, m, version, n_search, n_compare>>

\* lines 6-7: if not m: exit(1)
ExitNoMatch ==
    /\ pc = "test"
    /\ ~m.matched
    /\ exit_status' = <<1>>
    /\ pc' = AfterExit
    /\ UNCHANGED <<sys_version, m, version, stdout, n_search, n_compare>>

\* lines 6, 9: the test falls through; version = m.group(1)
GetGroup ==
    /\ pc = "test"
    /\ m.matched
    /\ version' = Group1(sys_version, m)
    /\ pc' = "compare"
    /\ UNCHANGED <<sys_version, m, stdout, exit_status, n_search, n_compare>>

\* lines 10, 12: if version == "7.3.16": ... else: ...
Compare ==
    /\ pc = "compare"
    /\ n_compare' = n_compare + 1
    /\ pc' = IF VersionEquals(version) THEN "print_hello" ELSE "print_sad"
    /\ UNCHANGED <<sys_version, m, version, stdout, exit_status, n_search>>

\* line 11: print("Hello World!")
PrintHello ==
    /\ pc = "print_hello"
    /\ stdout' = Written(stdout, HELLO)
    /\ pc' = "end"
    /\ UNCHANGED <<sys_version, m, version, exit_status, n_search, n_compare>>

\* line 13: print(":(")
PrintSad ==
    /\ pc = "print_sad"
    /\ stdout' = Written(stdout, SAD)
    /\ pc' = "end"
    /\ UNCHANGED <<sys_version, m, version, exit_status, n_search, n_compare>>

\* Variant of ExitNormal in which the else branch ends with exit(1).
ExitByOutput ==
    /\ pc = "end"
    /\ exit_status' = IF stdout = <<SAD>> THEN <<1>> ELSE <<0>>
    /\ pc' = "exited"
    /\ UNCHANGED <<sys_version, m, version, stdout, n_search, n_compare>>

\* End of the script: the interpreter exits with status 0.
ExitNormal ==
    /\ pc = "end"
    /\ exit_status' = <<0>>
    /\ pc' = "exited"
    /\ UNCHANGED <<sys_version, m, version, stdout, n_search, n_compare>>

Next ==
    \/ Search
    \/ ExitNoMatch
    \/ GetGroup
    \/ Compare
    \/ PrintHello
    \/ PrintSad
    \/ ExitNormal

Spec == Init /\ [][Next]_vars

\* The script is one synchronous thread: the interpreter keeps executing the
\* next statement until the process exits.
FairSpec == Spec /\ WF_vars(Next)

----------------------------------------------------------------------------
(* Vocabulary of the properties, stated on the version string itself and   *)
(* independently of the search procedure above.                            *)

s == sys_version

\* "PyPy"
TheWord == <<80, 121, 80, 121>>

\* "7.3.16"
TheConstant == <<55, 46, 51, 46, 49, 54>>

\* " ", "]" and "My"
OneSpace == <<32>>

Bracket == <<93>>

My == <<77, 121>>

\* The word occurs in str at index i.
WordAt(str, i) == i + 3 <= Len(str) /\ SubSeq(str, i, i + 3) = TheWord

WordPositions(str) == { i \in 1..Len(str) : WordAt(str, i) }

\* The word occurs at i, followed by one space and a non-whitespace character.
OccursAt(str, i) ==
    /\ WordAt(str, i)
    /\ i + 5 <= Len(str)
    /\ str[i + 4] = OneSpace[1]
    /\ str[i + 5] \notin Whitespace

Occurrences(str) == { i \in 1..Len(str) : OccursAt(str, i) }

Leftmost(str) == CHOOSE i \in Occurrences(str) : \A j \in Occurrences(str) : i <= j

\* The maximal run of non-whitespace characters that starts at index j.
RunFrom(str, j) ==
    LET e == CHOOSE e \in j..Len(str) :
                 /\ \A k \in j..e : str[k] \notin Whitespace
                 /\ (e = Len(str) \/ str[e + 1] \in Whitespace)
    IN  SubSeq(str, j, e)

\* The token of the occurrence at i.
TokenOf(str, i) == RunFrom(str, i + 5)

\* The token the leftmost occurrence carries.
LeadingToken(str) == TokenOf(str, Leftmost(str))

\* The word occurs at i and, after one or more whitespace characters of any
\* kind, a non-whitespace character follows.
LooselyOccursAt(str, i) ==
    /\ WordAt(str, i)
    /\ \E k \in (i + 4)..(Len(str) - 1) :
          /\ \A j \in (i + 4)..k : str[j] \in Whitespace
          /\ str[k + 1] \notin Whitespace

\* The non-whitespace runs that follow some "PyPy" of str after one or more
\* whitespace characters of any kind.
LooseTokens(str) ==
    { RunFrom(str, k + 1) :
        k \in { k \in 5..(Len(str) - 1) :
                  /\ str[k + 1] \notin Whitespace
                  /\ \E i \in WordPositions(str) :
                        /\ i + 4 <= k
                        /\ \A j \in (i + 4)..k : str[j] \in Whitespace } }

\* Every character after the word at i, up to the end of the string, is
\* whitespace (none at all when the string ends with the word).
OnlyWhitespaceAfter(str, i) == \A k \in (i + 4)..Len(str) : str[k] \in Whitespace

Finished == pc = "exited"

----------------------------------------------------------------------------
(* Properties *)

\* C1 as stated: whenever the version string contains "PyPy" followed,
\* after whitespace, by a non-whitespace run equal to "7.3.16" (anywhere in
\* the string), the finished run has printed exactly "Hello World!" and its
\* exit status is 0.
C1_AnyRunEqual ==
    (Finished /\ TheConstant \in LooseTokens(s))
        => (stdout = <<"Hello World!">> /\ exit_status = <<0>>)

\* C1 amended: when the leftmost occurrence of "PyPy", exactly one U+0020 and
\* a non-whitespace run carries a run equal to "7.3.16", the finished run has
\* printed exactly "Hello World!" and its exit status is 0, whatever follows.
C1_SuccessPhrase ==
    (Finished /\ Occurrences(s) # {} /\ LeadingToken(s) = TheConstant)
        => (stdout = <<"Hello World!">> /\ exit_status = <<0>>)

C1_Witness ==
    /\ Finished
    /\ Occurrences(s) # {}
    /\ LeadingToken(s) = TheConstant
    /\ \E t \in LooseTokens(s) : t # TheConstant
    /\ stdout = <<"Hello World!">>
    /\ exit_status = <<0>>

\* C2 as stated: whenever the version string contains "PyPy" followed, after
\* whitespace, by a non-whitespace run that differs from "7.3.16" (anywhere
\* in the string), the finished run has printed exactly ":(" and its exit
\* status is 0.
C2_AnyRunDiffers ==
    (Finished /\ \E t \in LooseTokens(s) : t # TheConstant)
        => (stdout = <<":(">> /\ exit_status = <<0>>)

\* C2 amended: when the leftmost occurrence of "PyPy", exactly one U+0020 and
\* a non-whitespace run carries a run that differs from "7.3.16", the
\* finished run has printed exactly ":(" and its exit status is still 0.
C2_SentinelPhrase ==
    (Finished /\ Occurrences(s) # {} /\ LeadingToken(s) # TheConstant)
        => (stdout = <<":(">> /\ exit_status = <<0>>)

C2_Witness ==
    /\ Finished
    /\ Occurrences(s) # {}
    /\ LeadingToken(s) # TheConstant
    /\ TheConstant \in LooseTokens(s)
    /\ stdout = <<":(">>
    /\ exit_status = <<0>>

\* C3: when the version string has no "PyPy" at all, or nothing but
\* whitespace (or nothing) follows every "PyPy" in it, the finished run has
\* printed nothing and its exit status is 1.
C3_SilentFailure ==
    (Finished /\ \A i \in WordPositions(s) : OnlyWhitespaceAfter(s, i))
        => (stdout = <<>> /\ exit_status = <<1>>)

C3_Witness ==
    /\ Finished
    /\ WordPositions(s) # {}
    /\ \A i \in WordPositions(s) : OnlyWhitespaceAfter(s, i)
    /\ Len(s) > 4
    /\ s[Len(s)] \in Whitespace
    /\ stdout = <<>>
    /\ exit_status = <<1>>

\* C4: at most one line is ever written; a finished run is in exactly one of
\* the outcomes ("Hello World!", 0), (":(", 0), (nothing, 1); and it has
\* written a line exactly when its exit status is 0.
C4_ThreeOutcomes ==
    /\ Len(stdout) <= 1
    /\ Finished =>
          /\ \/ (stdout = <<"Hello World!">> /\ exit_status = <<0>>)
             \/ (stdout = <<":(">> /\ exit_status = <<0>>)
             \/ (stdout = <<>> /\ exit_status = <<1>>)
          /\ (Len(stdout) = 1 <=> exit_status = <<0>>)

C4_Witness ==
    /\ Finished
    /\ stdout = <<>>
    /\ exit_status = <<1>>
    /\ Occurrences(s) = {}
    /\ WordPositions(s) # {}

\* C5: after a match, "Hello World!" is printed exactly when the captured
\* token is character for character "7.3.16"; a token that only starts with
\* or contains "7.3.16" gives ":(" and exit status 0.
C5_ExactEquality ==
    (Finished /\ m.matched)
        => /\ (stdout = <<"Hello World!">> <=> version = TheConstant)
           /\ (version # TheConstant => (stdout = <<":(">> /\ exit_status = <<0>>))

C5_Witness ==
    /\ Finished
    /\ m.matched
    /\ Len(version) > 6
    /\ SubSeq(version, 1, 6) = TheConstant
    /\ stdout = <<":(">>
    /\ exit_status = <<0>>

\* C6 as stated: whenever "PyPy" is separated from a following
\* non-whitespace run by whitespace of any kind (space, tab, newline, several
\* spaces), the run is matched and the no-match exit is not taken.
C6_AnyWhitespaceSeparates ==
    (Finished /\ \E i \in WordPositions(s) : LooselyOccursAt(s, i))
        => (m.matched /\ exit_status = <<0>>)

\* C6 amended: the separator is exactly one U+0020. A string with an
\* occurrence of "PyPy", one space and a non-whitespace run is a match whose
\* token is that run; a string with no such occurrence, also one where a tab,
\* a newline or several spaces separate the word from the run, takes the
\* no-match exit.
C6_OneSpaceSeparates ==
    Finished =>
        /\ Occurrences(s) # {} =>
              (m.matched /\ version = LeadingToken(s) /\ exit_status = <<0>>)
        /\ Occurrences(s) = {} =>
              (~m.matched /\ stdout = <<>> /\ exit_status = <<1>>)

C6_Witness ==
    /\ Finished
    /\ \E i \in WordPositions(s) : LooselyOccursAt(s, i)
    /\ Occurrences(s) = {}
    /\ exit_status = <<1>>

\* C7: once the group has been read, the token is non-empty, holds no
\* whitespace, is the text right after "PyPy " in the version string, and is
\* maximal: the string ends with it or a whitespace character follows it.
C7_TokenIsMaximalRun ==
    (m.matched /\ pc # "test")
        => /\ Len(version) >= 1
           /\ \A k \in 1..Len(version) : version[k] \notin Whitespace
           /\ version = SubSeq(s, m.g1start, m.g1end)
           /\ m.g1start = m.start + 5
           /\ SubSeq(s, m.start, m.start + 4) = TheWord \o OneSpace
           /\ (m.g1end = Len(s) \/ s[m.g1end + 1] \in Whitespace)

C7_Witness ==
    /\ Finished
    /\ m.matched
    /\ version = TheConstant \o Bracket
    /\ m.g1end < Len(s)

\* C8: every run finishes; it searches once and compares at most once; the
\* failure exit is taken before any comparison or print and nothing happens
\* after an exit; a print is followed by the normal exit and by nothing else.
C8_StateInv ==
    /\ n_search <= 1
    /\ n_compare <= 1
    /\ Finished => n_search = 1
    /\ exit_status # <<>> => Finished
    /\ exit_status = <<1>> => (n_compare = 0 /\ stdout = <<>>)
    /\ exit_status = <<0>> => (n_compare = 1 /\ Len(stdout) = 1)

C8_StepInv ==
    /\ exit_status = <<>>
    /\ stdout' # stdout => (pc' = "end" /\ exit_status' = <<>>)
    /\ pc = "end" => (exit_status' = <<0>> /\ stdout' = stdout)

C8_OneShot == []C8_StateInv /\ [][C8_StepInv]_vars /\ <>Finished

C8_Witness ==
    /\ Finished
    /\ exit_status = <<1>>
    /\ n_search = 1
    /\ n_compare = 0
    /\ stdout = <<>>

\* C9: with several occurrences of "PyPy ", run, only the leftmost decides:
\* "Hello World!" exactly when its token is "7.3.16", ":(" otherwise,
\* whatever the later occurrences carry.
C9_LeftmostDecides ==
    (Finished /\ Cardinality(Occurrences(s)) >= 2)
        => /\ version = LeadingToken(s)
           /\ exit_status = <<0>>
           /\ stdout = IF LeadingToken(s) = TheConstant
                       THEN <<"Hello World!">> ELSE <<":(">>

C9_Witness ==
    /\ Finished
    /\ Cardinality(Occurrences(s)) >= 2
    /\ LeadingToken(s) # TheConstant
    /\ \E i \in Occurrences(s) : TokenOf(s, i) = TheConstant
    /\ stdout = <<":(">>

\* C10: no word boundary is required before "PyPy": when the leftmost
\* occurrence is the tail of a longer word, it is still the match, and the
\* run prints "Hello World!" or ":(" by its token with exit status 0.
C10_NoWordBoundary ==
    (Finished /\ Occurrences(s) # {} /\ Leftmost(s) > 1
              /\ s[Leftmost(s) - 1] \in WordChars)
        => /\ m.matched
           /\ m.start = Leftmost(s)
           /\ exit_status = <<0>>
           /\ stdout = IF LeadingToken(s) = TheConstant
                       THEN <<"Hello World!">> ELSE <<":(">>

C10_Witness ==
    /\ Finished
    /\ s = My \o TheWord \o OneSpace \o TheConstant
    /\ stdout = <<"Hello World!">>
    /\ exit_status = <<0>>

====
